---------------------------- MODULE Spec2Model ----------------------------
(***************************************************************************)
(* django_vite/templatetags/django_vite.py: DjangoViteAssetLoader and the  *)
(* template tags that call it.                                             *)
(*                                                                         *)
(* Strings are sequences of pieces (concatenation is \o), so that joining  *)
(* a prefix with a path, routing a path through the static-file storage    *)
(* and looking for a substring of a manifest key are computed, not         *)
(* assumed.  A dict is a sequence of <<key, value>> pairs with distinct    *)
(* keys, in insertion order.  The markup a tag returns is the sequence of  *)
(* the tags joined by "\n"; the empty string is the empty sequence.        *)
(***************************************************************************)
EXTENDS Integers, Sequences, FiniteSets, TLC

\* Number of request-handling threads of the process.
NThreads == 2

Threads == 1..NThreads

----------------------------------------------------------------------------
(* Sequences. *)

Range(s) == {s[i] : i \in 1..Len(s)}

\* `needle in haystack` for strings (line 353).
Contains(needle, haystack) ==
    \E i \in 0..(Len(haystack) - Len(needle)) :
        SubSeq(haystack, i + 1, i + Len(needle)) = needle

\* str.endswith("/") (line 586, line 76).
EndsWithSlash(s) == Len(s) > 0 /\ s[Len(s)] = "/"

\* str.lstrip("/"), as the storage applies it to the name it is given.
RECURSIVE LStripSlash(_)
LStripSlash(s) ==
    IF Len(s) > 0 /\ s[1] = "/" THEN LStripSlash(Tail(s)) ELSE s

----------------------------------------------------------------------------
(* Dicts (keyword arguments, tag attributes). *)

DictKeys(d) == {d[i][1] : i \in 1..Len(d)}

DictGet(d, k) == d[CHOOSE i \in 1..Len(d) : d[i][1] = k][2]

\* d[k] = v: an existing key keeps its position and takes the new value, a
\* new key goes last.
DictSet(d, k, v) ==
    IF k \in DictKeys(d)
    THEN [i \in 1..Len(d) |-> IF d[i][1] = k THEN <<k, v>> ELSE d[i]]
    ELSE Append(d, <<k, v>>)

\* {**kwargs, **d}: a key of d keeps the value d gives it.
RECURSIVE DictMergeKeepingFirst(_, _)
DictMergeKeepingFirst(d, kwargs) ==
    IF kwargs = <<>> THEN d
    ELSE DictMergeKeepingFirst(
             IF kwargs[1][1] \in DictKeys(d) THEN d ELSE Append(d, kwargs[1]),
             Tail(kwargs))

\* {**d, **kwargs} (lines 123, 134, 350, 402, 471).
RECURSIVE DictMerge(_, _)
DictMerge(d, kwargs) ==
    IF kwargs = <<>> THEN d
    ELSE DictMerge(DictSet(d, kwargs[1][1], kwargs[1][2]), Tail(kwargs))

----------------------------------------------------------------------------
(* Manifest keys, files and the manifest files the process may find. *)

K_main == <<"main.js">>
K_a == <<"a.js">>
K_b == <<"b.js">>
K_c == <<"c.js">>
K_polyfills == <<"vite/", "legacy-polyfills">>
K_polyfills2 == <<"vite/", "legacy-polyfills", "-2">>
K_legacy == <<"main", "-legacy", ".js">>
K_missing == <<"missing.js">>

\* The paths a template may ask for.
Paths == {K_main, K_a, K_b, K_c, K_polyfills, K_legacy, K_missing}

Entry(key, file, imports, css) ==
    [key |-> key, file |-> file, imports |-> imports, css |-> css]

\* The example of the documentation: a stylesheet shared by two imports.
ManifestShared ==
    << Entry(K_main, <<"main.1.js">>, <<K_a, K_b>>, <<<<"main.css">>>>),
       Entry(K_a, <<"a.1.js">>, <<>>, <<<<"a.css">>>>),
       Entry(K_b, <<"b.1.js">>, <<>>, <<<<"a.css">>, <<"b.css">>>>),
       Entry(K_polyfills, <<"polyfills.1.js">>, <<>>, <<>>),
       Entry(K_legacy, <<"main-legacy.1.js">>, <<>>, <<>>) >>

\* A chain main -> b -> c, where a stylesheet of b is also one of a, which
\* main imports before b.  No polyfills.
ManifestChain ==
    << Entry(K_main, <<"main.2.js">>, <<K_a, K_b>>, <<>>),
       Entry(K_a, <<"a.2.js">>, <<>>, <<<<"b.css">>>>),
       Entry(K_b, <<"b.2.js">>, <<K_c>>, <<<<"b.css">>, <<"b2.css">>>>),
       Entry(K_c, <<"c.2.js">>, <<>>, <<<<"c.css">>>>) >>

\* Two keys holding the polyfills motif.
ManifestTwoPolyfills ==
    << Entry(K_polyfills2, <<"polyfills2.3.js">>, <<>>, <<>>),
       Entry(K_polyfills, <<"polyfills.3.js">>, <<>>, <<>>),
       Entry(K_c, <<"c.3.js">>, <<>>, <<<<"c.css">>, <<"c.css">>>>) >>

ManifestEmpty == <<>>

Manifests == {ManifestShared, ManifestChain, ManifestTwoPolyfills, ManifestEmpty}

\* What is at DJANGO_VITE_MANIFEST_PATH: a JSON document, or a file that
\* cannot be opened or parsed.
ManifestFiles ==
    {[readable |-> TRUE, content |-> m] : m \in Manifests}
        \cup {[readable |-> FALSE, content |-> <<>>]}

\* `path in self._manifest` and `self._manifest[path]`.
ManifestKeys(m) == {m[i].key : i \in 1..Len(m)}

ManifestGet(m, path) == m[CHOOSE i \in 1..Len(m) : m[i].key = path]

\* Keyword arguments a template may pass to a tag.
KwargsSet ==
    { <<>>,
      << <<"type", <<"text/plain">>>>, <<"defer", <<>>>>,
         <<"nomodule", <<"false">>>>,
         <<"crossorigin", <<"use-credentials">>>> >> }

----------------------------------------------------------------------------
(* State. *)

VARIABLES
    DJANGO_VITE_DEV_MODE,           \* line 15
    DJANGO_VITE_STATIC_URL_PREFIX,  \* line 48
    staticfiles,                    \* "none": django.contrib.staticfiles is
                                    \* not installed; else the storage it uses
    manifest_file,                  \* the file at DJANGO_VITE_MANIFEST_PATH
    template_paths,                 \* the paths the templates pass to the tags
    template_kwargs,                \* the keyword arguments they pass
    _instance,                      \* DjangoViteAssetLoader._instance
    loaders,                        \* the loader objects created so far
    opened,                         \* times the manifest file was opened
    pc, self, loader,               \* each thread: position, the `self` of
                                    \* _parse_manifest, what instance() returned
    already_processed,              \* the list made for the last CSS walk
    result,                         \* the last call that ended
    first, between                  \* history of vite_asset calls

config == <<DJANGO_VITE_DEV_MODE, DJANGO_VITE_STATIC_URL_PREFIX, staticfiles,
            manifest_file, template_paths, template_kwargs>>

vars == <<config, _instance, loaders, opened, pc, self, loader,
          already_processed, result, first, between>>

----------------------------------------------------------------------------
(* URLs. *)

STATIC_URL == <<"/", "static", "/">>

DEV_SERVER_ORIGIN == <<"http://localhost:3000">>

DJANGO_VITE_WS_CLIENT_URL == <<"@vite", "/", "client">>

DJANGO_VITE_REACT_REFRESH_URL == <<"@react-refresh">>

DJANGO_VITE_LEGACY_POLYFILLS_MOTIF == <<"legacy-polyfills">>

LastSlash(s) ==
    IF \E i \in 1..Len(s) : s[i] = "/"
    THEN CHOOSE i \in 1..Len(s) : s[i] = "/" /\ \A j \in (i+1)..Len(s) : s[j] # "/"
    ELSE 0

FirstSlash(s) ==
    IF \E i \in 1..Len(s) : s[i] = "/"
    THEN CHOOSE i \in 1..Len(s) : s[i] = "/" /\ \A j \in 1..(i-1) : s[j] # "/"
    ELSE Len(s) + 1

\* urllib.parse.urljoin for the shapes the module gives it: an empty url
\* leaves the base, an absolute path replaces the path of the base, a
\* relative one replaces what follows the last "/" of the base.
urljoin(base, url) ==
    IF url = <<>> THEN base
    ELSE IF url[1] = "/" THEN SubSeq(base, 1, FirstSlash(base) - 1) \o url
    ELSE SubSeq(base, 1, LastSlash(base)) \o url

\* Lines 71-77.
DJANGO_VITE_STATIC_URL ==
    LET joined == urljoin(STATIC_URL, DJANGO_VITE_STATIC_URL_PREFIX)
    IN  IF EndsWithSlash(joined) THEN joined ELSE joined \o <<"/">>

\* staticfiles_storage.url(name): the static URL joined with the name, which
\* a hashing storage first replaces by its hashed name.
HashedName(name) == name \o <<".", "md5">>

staticfiles_storage_url(name) ==
    urljoin(STATIC_URL,
            LStripSlash(IF staticfiles = "hashed" THEN HashedName(name) ELSE name))

_generate_production_server_url(path) ==
    LET prefix == IF EndsWithSlash(DJANGO_VITE_STATIC_URL_PREFIX)
                  THEN DJANGO_VITE_STATIC_URL_PREFIX
                  ELSE DJANGO_VITE_STATIC_URL_PREFIX \o <<"/">>
        production_server_url == urljoin(prefix, path)
    IN  IF staticfiles # "none"
        THEN staticfiles_storage_url(production_server_url)
        ELSE production_server_url

_generate_vite_server_url(path) ==
    urljoin(DEV_SERVER_ORIGIN, urljoin(DJANGO_VITE_STATIC_URL, path))

----------------------------------------------------------------------------
(* Tags: the name of the element and its attributes in the order written. *)

_generate_script_tag(src, attrs) ==
    [name |-> "script", attrs |-> Append(attrs, <<"src", src>>)]

_generate_stylesheet_tag(href) ==
    [name |-> "link",
     attrs |-> << <<"rel", <<"stylesheet">>>>, <<"href", href>> >>]

_generate_stylesheet_preload_tag(href) ==
    [name |-> "link",
     attrs |-> << <<"rel", <<"preload">>>>, <<"href", href>>,
                  <<"as", <<"style">>>> >>]

_generate_preload_tag(href, attrs) ==
    [name |-> "link", attrs |-> << <<"href", href>> >> \o attrs]

----------------------------------------------------------------------------
(* What a call gives back: the markup it returns, or the error it raises.  *)
(* The three RuntimeErrors of the module are told apart by their message:  *)
(* "Cannot find ... in Vite manifest" (UnknownAsset), "Vite legacy         *)
(* polyfills not found" (PolyfillsNotFound), "Cannot read Vite manifest    *)
(* file" (ManifestUnreadable).  AttributeError is what Python raises when  *)
(* self._manifest is read before it is assigned, or None.items() is called.*)

\* `list` is the already_processed list of the last CSS walk: the one the
\* call made, if it made one.
Return(markup, list) == [status |-> "ok", out |-> markup, list |-> list]

Raise(error) == [status |-> error, out |-> <<>>, list |-> already_processed]

\* A loader object: whether _manifest was assigned yet, and to what.
NoLoader == [state |-> "absent", manifest |-> <<>>]

\* `not self._manifest or path not in self._manifest` (lines 126, 197, 315,
\* 395), once self._manifest is known to be assigned.
NotInManifest(obj, path) ==
    \/ obj.state = "none"
    \/ obj.manifest = <<>>
    \/ path \notin ManifestKeys(obj.manifest)

----------------------------------------------------------------------------
(* The CSS walk. *)

\* The tag_generator argument.
TagGenerator(tag_generator, url) ==
    IF tag_generator = "_generate_stylesheet_tag"
    THEN _generate_stylesheet_tag(url)
    ELSE _generate_stylesheet_preload_tag(url)

\* The loop turn without the `not in already_processed` test.
css_path_step_no_dedup(w, css_path, tag_generator) ==
    [tags |-> Append(w.tags,
                     TagGenerator(tag_generator,
                                  _generate_production_server_url(css_path))),
     already_processed |-> Append(w.already_processed, css_path)]

\* One turn of the loop over manifest_entry["css"] (lines 281-292).  w is
\* the pair of the local `tags` and the shared `already_processed`.
css_path_step(w, css_path, tag_generator) ==
    [tags |->
        IF css_path \notin Range(w.already_processed)
        THEN Append(w.tags,
                    TagGenerator(tag_generator,
                                 _generate_production_server_url(css_path)))
        ELSE w.tags,
     already_processed |-> Append(w.already_processed, css_path)]

RECURSIVE css_loop(_, _, _)
css_loop(css, w, tag_generator) ==
    IF css = <<>> THEN w
    ELSE css_loop(Tail(css), css_path_step(w, css[1], tag_generator),
                  tag_generator)

RECURSIVE _generate_css_files_of_asset(_, _, _, _)
RECURSIVE imports_loop(_, _, _, _)

\* The loop over manifest_entry["imports"] (lines 272-278).
imports_loop(manifest, imports, w, tag_generator) ==
    IF imports = <<>> THEN w
    ELSE LET r == _generate_css_files_of_asset(
                      manifest, imports[1], w.already_processed, tag_generator)
         IN  imports_loop(manifest, Tail(imports),
                          [tags |-> w.tags \o r.tags,
                           already_processed |-> r.already_processed],
                          tag_generator)

\* The walk with the entry's own css taken before its imports.
css_before_imports(manifest, path, processed, tag_generator) ==
    LET manifest_entry == ManifestGet(manifest, path)
        w0 == [tags |-> <<>>, already_processed |-> processed]
        w1 == css_loop(manifest_entry.css, w0, tag_generator)
    IN  imports_loop(manifest, manifest_entry.imports, w1, tag_generator)

\* Returns the tags, and the list already_processed as the call leaves it.
_generate_css_files_of_asset(manifest, path, processed, tag_generator) ==
    LET manifest_entry == ManifestGet(manifest, path)
        w0 == [tags |-> <<>>, already_processed |-> processed]
        w1 == imports_loop(manifest, manifest_entry.imports, w0, tag_generator)
    IN  css_loop(manifest_entry.css, w1, tag_generator)

_load_css_files_of_asset(manifest, path, processed) ==
    _generate_css_files_of_asset(manifest, path, processed,
                                 "_generate_stylesheet_tag")

_preload_css_files_of_asset(manifest, path, processed) ==
    _generate_css_files_of_asset(manifest, path, processed,
                                 "_generate_stylesheet_preload_tag")

----------------------------------------------------------------------------
(* The methods of DjangoViteAssetLoader.  obj is the loader they run on.   *)

\* A resolution that answers an unknown path with a tag for the path itself.
cannot_find_placeholder(path) ==
    Return(<< [name |-> "script", attrs |-> << <<"src", path>> >>] >>,
           already_processed)

\* The `raise RuntimeError("Cannot find ...")` of lines 127, 198, 316, 396.
cannot_find(path) == Raise("UnknownAsset")

\* A list that outlives the call: the one the last walk left.
load_css_list_kept == already_processed

\* The new list `[]` handed to the walk (line 137, line 222).
load_css_list == <<>>

preload_css_list == <<>>

\* Lines 150-155 and 207-212.
preload_attrs ==
    << <<"type", <<"text/javascript">>>>, <<"crossorigin", <<"anonymous">>>>,
       <<"rel", <<"modulepreload">>>>, <<"as", <<"script">>>> >>

\* The loop `for dep in manifest_entry.get("imports", [])` of lines 157-165.
RECURSIVE asset_import_tags(_, _)
asset_import_tags(manifest, imports) ==
    IF imports = <<>> THEN <<>>
    ELSE LET dep_file == ManifestGet(manifest, imports[1]).file
         IN  << _generate_preload_tag(urljoin(DJANGO_VITE_STATIC_URL, dep_file),
                                      preload_attrs) >>
                 \o asset_import_tags(manifest, Tail(imports))

\* The loop made to follow the imports of the imports.
RECURSIVE preload_import_tags_transitive(_, _)
preload_import_tags_transitive(manifest, imports) ==
    IF imports = <<>> THEN <<>>
    ELSE LET dep == ManifestGet(manifest, imports[1])
         IN  << _generate_preload_tag(urljoin(DJANGO_VITE_STATIC_URL, dep.file),
                                      preload_attrs) >>
                 \o preload_import_tags_transitive(manifest, dep.imports)
                 \o preload_import_tags_transitive(manifest, Tail(imports))

\* The same loop in preload_vite_asset (lines 225-233).
RECURSIVE preload_import_tags(_, _)
preload_import_tags(manifest, imports) ==
    IF imports = <<>> THEN <<>>
    ELSE LET dep_file == ManifestGet(manifest, imports[1]).file
         IN  << _generate_preload_tag(urljoin(DJANGO_VITE_STATIC_URL, dep_file),
                                      preload_attrs) >>
                 \o preload_import_tags(manifest, Tail(imports))

generate_vite_asset(obj, path, kwargs) ==
    IF DJANGO_VITE_DEV_MODE
    THEN Return(<< _generate_script_tag(
                       _generate_vite_server_url(path),
                       DictMerge(<< <<"type", <<"module">>>> >>, kwargs)) >>,
                already_processed)
    ELSE IF obj.state = "unset" THEN Raise("AttributeError")
    ELSE IF NotInManifest(obj, path) THEN cannot_find(path)
    ELSE LET manifest_entry == ManifestGet(obj.manifest, path)
             scripts_attrs ==
                 DictMerge(<< <<"type", <<"module">>>>, <<"crossorigin", <<>>>> >>,
                           kwargs)
             css == _load_css_files_of_asset(obj.manifest, path, load_css_list)
         IN  Return(css.tags
                      \o << _generate_script_tag(
                                _generate_production_server_url(manifest_entry.file),
                                scripts_attrs) >>
                      \o asset_import_tags(obj.manifest, manifest_entry.imports),
                    css.already_processed)

preload_vite_asset(obj, path) ==
    IF DJANGO_VITE_DEV_MODE THEN Return(<<>>, already_processed)
    ELSE IF obj.state = "unset" THEN Raise("AttributeError")
    ELSE IF NotInManifest(obj, path) THEN cannot_find(path)
    ELSE LET manifest_entry == ManifestGet(obj.manifest, path)
             css == _preload_css_files_of_asset(obj.manifest, path,
                                                preload_css_list)
         IN  Return(<< _generate_preload_tag(
                           urljoin(DJANGO_VITE_STATIC_URL, manifest_entry.file),
                           preload_attrs) >>
                      \o css.tags
                      \o preload_import_tags(obj.manifest, manifest_entry.imports),
                    css.already_processed)

\* Returns a URL, not markup.
generate_vite_asset_url(obj, path) ==
    IF DJANGO_VITE_DEV_MODE
    THEN Return(_generate_vite_server_url(path), already_processed)
    ELSE IF obj.state = "unset" THEN Raise("AttributeError")
    ELSE IF NotInManifest(obj, path) THEN cannot_find(path)
    ELSE Return(_generate_production_server_url(
                    ManifestGet(obj.manifest, path).file),
                already_processed)

\* The motif compared with the whole key.
is_polyfills_exact(path) == path = DJANGO_VITE_LEGACY_POLYFILLS_MOTIF

\* `DJANGO_VITE_LEGACY_POLYFILLS_MOTIF in path` (line 353).
is_polyfills(path) == Contains(DJANGO_VITE_LEGACY_POLYFILLS_MOTIF, path)

\* The loop over self._manifest.items(), in the order of the file
\* (lines 352-364).
RECURSIVE polyfills_loop(_, _)
polyfills_loop(items, scripts_attrs) ==
    IF items = <<>> THEN Raise("PolyfillsNotFound")
    ELSE IF is_polyfills(items[1].key)
    THEN Return(<< _generate_script_tag(
                       _generate_production_server_url(items[1].file),
                       scripts_attrs) >>,
                already_processed)
    ELSE polyfills_loop(Tail(items), scripts_attrs)

legacy_attrs(kwargs) ==
    DictMerge(<< <<"nomodule", <<>>>>, <<"crossorigin", <<>>>> >>, kwargs)

generate_vite_legacy_polyfills(obj, kwargs) ==
    IF DJANGO_VITE_DEV_MODE THEN Return(<<>>, already_processed)
    ELSE IF obj.state # "loaded" THEN Raise("AttributeError")
    ELSE polyfills_loop(obj.manifest, legacy_attrs(kwargs))

generate_vite_legacy_asset(obj, path, kwargs) ==
    IF DJANGO_VITE_DEV_MODE THEN Return(<<>>, already_processed)
    ELSE IF obj.state = "unset" THEN Raise("AttributeError")
    ELSE IF NotInManifest(obj, path) THEN cannot_find(path)
    ELSE Return(<< _generate_script_tag(
                       _generate_production_server_url(
                           ManifestGet(obj.manifest, path).file),
                       legacy_attrs(kwargs)) >>,
                already_processed)

generate_vite_ws_client(kwargs) ==
    IF ~DJANGO_VITE_DEV_MODE THEN Return(<<>>, already_processed)
    ELSE Return(<< _generate_script_tag(
                       _generate_vite_server_url(DJANGO_VITE_WS_CLIENT_URL),
                       DictMerge(<< <<"type", <<"module">>>> >>, kwargs)) >>,
                already_processed)

\* The inline script is a fixed text around one URL.
generate_vite_react_refresh_url ==
    IF ~DJANGO_VITE_DEV_MODE THEN Return(<<>>, already_processed)
    ELSE Return(<< [name |-> "script",
                    attrs |-> << <<"type", <<"module">>>>,
                                 <<"import", _generate_vite_server_url(
                                                 DJANGO_VITE_REACT_REFRESH_URL)>> >>] >>,
                already_processed)

----------------------------------------------------------------------------
(* The process. *)

NoCall ==
    [op |-> "none", path |-> <<>>, kwargs |-> <<>>, on |-> "none",
     status |-> "none", out |-> <<>>]

\* A call that ended: the tag, its arguments, the state of the _manifest of
\* the loader it ran on ("class" for a class method), and what it gave.
Ended(op, path, kwargs, on, r) ==
    [op |-> op, path |-> path, kwargs |-> kwargs, on |-> on,
     status |-> r.status, out |-> r.out]

SameCall(c, d) == c.op = d.op /\ c.path = d.path /\ c.kwargs = d.kwargs

\* Thread t's call ends with r.  `first` keeps the first vite_asset call
\* that returned, `between` whether a different call ended after it.
Finish(t, op, path, kwargs, r) ==
    LET on == IF loader[t] = 0 THEN "class" ELSE loaders[loader[t]].state
        call == Ended(op, path, kwargs, on, r)
    IN  /\ result' = call
        /\ already_processed' = r.list
        /\ first' = IF first.op = "none" /\ op = "vite_asset" /\ r.status = "ok"
                    THEN call ELSE first
        /\ between' = (between \/ (first.op # "none" /\ ~SameCall(call, first)))
        /\ pc' = [pc EXCEPT ![t] = "idle"]
        /\ loader' = [loader EXCEPT ![t] = 0]

\* The manifest parsed whatever the mode.
manifest_always_used == TRUE

\* `if not DJANGO_VITE_DEV_MODE` (line 446).
manifest_is_used == ~DJANGO_VITE_DEV_MODE

\* A template tag that goes through DjangoViteAssetLoader.instance() starts
\* (lines 650, 678, 700, 724, 758).
instance_call(t) ==
    /\ pc[t] = "idle"
    /\ pc' = [pc EXCEPT ![t] = "441"]
    /\ UNCHANGED <<config, _instance, loaders, opened, self, loader,
                   already_processed, result, first, between>>

\* `if cls._instance is None` (line 441).
instance_441(t) ==
    /\ pc[t] = "441"
    /\ pc' = [pc EXCEPT ![t] = IF _instance = 0 THEN "442" ELSE "449"]
    /\ UNCHANGED <<config, _instance, loaders, opened, self, loader,
                   already_processed, result, first, between>>

\* `cls._instance = cls.__new__(cls)` (line 442): a new object, which has no
\* _manifest attribute yet.  The object a thread makes is named after it.
instance_442(t) ==
    /\ pc[t] = "442"
    /\ _instance' = t
    /\ loaders' = [loaders EXCEPT ![t] = [state |-> "unset", manifest |-> <<>>]]
    /\ pc' = [pc EXCEPT ![t] = "443"]
    /\ UNCHANGED <<config, opened, self, loader, already_processed, result,
                   first, between>>

\* `cls._instance._manifest = None` (line 443), on the object cls._instance
\* names now.
instance_443(t) ==
    /\ pc[t] = "443"
    /\ loaders' = [loaders EXCEPT ![_instance] =
                       [state |-> "none", manifest |-> <<>>]]
    /\ pc' = [pc EXCEPT ![t] = "446"]
    /\ UNCHANGED <<config, _instance, opened, self, loader, already_processed,
                   result, first, between>>

\* Lines 446-447: in production, call _parse_manifest on cls._instance.
instance_446(t) ==
    /\ pc[t] = "446"
    /\ IF manifest_is_used
       THEN /\ self' = [self EXCEPT ![t] = _instance]
            /\ pc' = [pc EXCEPT ![t] = "420"]
       ELSE /\ pc' = [pc EXCEPT ![t] = "449"]
            /\ UNCHANGED self
    /\ UNCHANGED <<config, _instance, loaders, opened, loader,
                   already_processed, result, first, between>>

\* _parse_manifest with an `except` that does not raise: the unreadable file
\* leaves _manifest as it is and the tag goes on.
parse_manifest_420_swallowed(t) ==
    /\ pc[t] = "420"
    /\ opened' = opened + 1
    /\ pc' = [pc EXCEPT ![t] = IF manifest_file.readable THEN "423" ELSE "449"]
    /\ self' = [self EXCEPT ![t] = IF manifest_file.readable THEN @ ELSE 0]
    /\ UNCHANGED <<config, _instance, loaders, loader, already_processed,
                   result, first, between>>

\* _parse_manifest opens and reads the file (lines 420-422); what fails
\* there or in json.loads is raised as a RuntimeError (lines 424-428) that
\* ends the tag.
parse_manifest_420(t) ==
    /\ pc[t] = "420"
    /\ opened' = opened + 1
    /\ IF manifest_file.readable
       THEN /\ pc' = [pc EXCEPT ![t] = "423"]
            /\ UNCHANGED <<self, result>>
       ELSE /\ pc' = [pc EXCEPT ![t] = "idle"]
            /\ self' = [self EXCEPT ![t] = 0]
            /\ result' = Ended("instance", <<>>, <<>>, loaders[self[t]].state,
                                Raise("ManifestUnreadable"))
    /\ UNCHANGED <<config, _instance, loaders, loader, already_processed,
                   first, between>>

\* `self._manifest = json.loads(manifest_content)` (line 423).
parse_manifest_423(t) ==
    /\ pc[t] = "423"
    /\ loaders' = [loaders EXCEPT ![self[t]] =
                       [state |-> "loaded", manifest |-> manifest_file.content]]
    /\ self' = [self EXCEPT ![t] = 0]
    /\ pc' = [pc EXCEPT ![t] = "449"]
    /\ UNCHANGED <<config, _instance, opened, loader, already_processed,
                   result, first, between>>

\* `return cls._instance` (line 449).
instance_449(t) ==
    /\ pc[t] = "449"
    /\ loader' = [loader EXCEPT ![t] = _instance]
    /\ pc' = [pc EXCEPT ![t] = "call"]
    /\ UNCHANGED <<config, _instance, loaders, opened, self,
                   already_processed, result, first, between>>

\* The method the tag calls on the loader instance() returned.  A method is
\* one step: it runs on the _manifest its loader holds when it is called.
vite_asset(t) ==
    /\ pc[t] = "call"
    /\ \E path \in template_paths, kwargs \in template_kwargs :
           Finish(t, "vite_asset", path, kwargs,
                  generate_vite_asset(loaders[loader[t]], path, kwargs))
    /\ UNCHANGED <<config, _instance, loaders, opened, self>>

vite_preload_asset(t) ==
    /\ pc[t] = "call"
    /\ \E path \in template_paths :
           Finish(t, "vite_preload_asset", path, <<>>,
                  preload_vite_asset(loaders[loader[t]], path))
    /\ UNCHANGED <<config, _instance, loaders, opened, self>>

vite_asset_url(t) ==
    /\ pc[t] = "call"
    /\ \E path \in template_paths :
           Finish(t, "vite_asset_url", path, <<>>,
                  generate_vite_asset_url(loaders[loader[t]], path))
    /\ UNCHANGED <<config, _instance, loaders, opened, self>>

vite_legacy_polyfills(t) ==
    /\ pc[t] = "call"
    /\ \E kwargs \in template_kwargs :
           Finish(t, "vite_legacy_polyfills", <<>>, kwargs,
                  generate_vite_legacy_polyfills(loaders[loader[t]], kwargs))
    /\ UNCHANGED <<config, _instance, loaders, opened, self>>

vite_legacy_asset(t) ==
    /\ pc[t] = "call"
    /\ \E path \in template_paths, kwargs \in template_kwargs :
           Finish(t, "vite_legacy_asset", path, kwargs,
                  generate_vite_legacy_asset(loaders[loader[t]], path, kwargs))
    /\ UNCHANGED <<config, _instance, loaders, opened, self>>

\* The two tags that are class methods and never call instance().
vite_hmr_client(t) ==
    /\ pc[t] = "idle"
    /\ \E kwargs \in template_kwargs :
           Finish(t, "vite_hmr_client", <<>>, kwargs,
                  generate_vite_ws_client(kwargs))
    /\ UNCHANGED <<config, _instance, loaders, opened, self>>

vite_react_refresh(t) ==
    /\ pc[t] = "idle"
    /\ Finish(t, "vite_react_refresh", <<>>, <<>>,
              generate_vite_react_refresh_url)
    /\ UNCHANGED <<config, _instance, loaders, opened, self>>

Step(t) ==
    \/ instance_call(t)
    \/ instance_441(t)
    \/ instance_442(t)
    \/ instance_443(t)
    \/ instance_446(t)
    \/ parse_manifest_420(t)
    \/ parse_manifest_423(t)
    \/ instance_449(t)
    \/ vite_asset(t)
    \/ vite_preload_asset(t)
    \/ vite_asset_url(t)
    \/ vite_legacy_polyfills(t)
    \/ vite_legacy_asset(t)
    \/ vite_hmr_client(t)
    \/ vite_react_refresh(t)

\* The settings are read once, when the module is imported (lines 15-77).
Settings ==
    /\ DJANGO_VITE_DEV_MODE \in BOOLEAN
    /\ DJANGO_VITE_STATIC_URL_PREFIX \in {<<>>, <<"bundler">>}
    /\ staticfiles \in {"none", "plain", "hashed"}
    /\ manifest_file \in ManifestFiles

Start ==
    /\ _instance = 0
    /\ loaders = [t \in Threads |-> NoLoader]
    /\ opened = 0
    /\ pc = [t \in Threads |-> "idle"]
    /\ self = [t \in Threads |-> 0]
    /\ loader = [t \in Threads |-> 0]
    /\ already_processed = <<>>
    /\ result = NoCall
    /\ first = NoCall
    /\ between = FALSE

Init ==
    /\ Settings
    /\ template_paths = Paths
    /\ template_kwargs = KwargsSet
    /\ Start

\* A process that renders its templates on one thread.
Next == \E t \in {1} : Step(t)

Spec == Init /\ [][Next]_vars

\* A process that serves requests on several threads, in production or in
\* development, with the default static-file storage, whose templates ask
\* for one entry of the manifest and one that is not in it.
InitThreads ==
    /\ Settings
    /\ DJANGO_VITE_STATIC_URL_PREFIX = <<>>
    /\ staticfiles = "plain"
    /\ manifest_file.content \in {<<>>, ManifestShared}
    /\ template_paths = {K_main, K_missing}
    /\ template_kwargs = {<<>>}
    /\ Start

NextThreads == \E t \in Threads : Step(t)

SpecThreads == InitThreads /\ [][NextThreads]_vars

----------------------------------------------------------------------------
(* Properties. *)

\* The process runs in production and its manifest file can be loaded.
Production == ~DJANGO_VITE_DEV_MODE /\ manifest_file.readable

\* The last call that ended ran, in production, on a loader whose manifest
\* was loaded.
OnLoaded == Production /\ result.on = "loaded"

TheManifest == manifest_file.content

\* The value of attribute k of a tag.
Attr(tag, k) == DictGet(tag.attrs, k)

HasAttr(tag, k) == k \in DictKeys(tag.attrs)

EndsWith(s, suffix) ==
    /\ Len(s) >= Len(suffix)
    /\ SubSeq(s, Len(s) - Len(suffix) + 1, Len(s)) = suffix

\* A modulepreload link to some URL of `file`.
IsModulePreloadOf(tag, file) ==
    /\ tag.name = "link"
    /\ HasAttr(tag, "rel") /\ Attr(tag, "rel") = <<"modulepreload">>
    /\ HasAttr(tag, "href") /\ EndsWith(Attr(tag, "href"), file)

\* The entries a depth-first walk from `path` finishes, in the order it
\* finishes them (an entry once for every import path that leads to it).
RECURSIVE WalkOrder(_, _)
RECURSIVE WalkOrderOfAll(_, _)
WalkOrderOfAll(m, imports) ==
    IF imports = <<>> THEN <<>>
    ELSE WalkOrder(m, imports[1]) \o WalkOrderOfAll(m, Tail(imports))

WalkOrder(m, path) ==
    WalkOrderOfAll(m, ManifestGet(m, path).imports) \o <<path>>

RECURSIVE CssOfAll(_, _)
CssOfAll(m, keys) ==
    IF keys = <<>> THEN <<>>
    ELSE ManifestGet(m, keys[1]).css \o CssOfAll(m, Tail(keys))

\* s without the later occurrences of its elements.
RECURSIVE FirstOccurrences(_)
FirstOccurrences(s) ==
    IF s = <<>> THEN <<>>
    ELSE LET front == SubSeq(s, 1, Len(s) - 1)
         IN  IF s[Len(s)] \in Range(front)
             THEN FirstOccurrences(front)
             ELSE Append(FirstOccurrences(front), s[Len(s)])

\* The unique CSS paths of the transitive-import closure of `path`, each at
\* the place the depth-first walk first meets it.
ClosureCss(m, path) == FirstOccurrences(CssOfAll(m, WalkOrder(m, path)))

\* C1: in production, vite_asset of a path of the manifest returns one
\* stylesheet link per unique CSS path of the closure, each at the place of
\* its first encounter, then one script tag for the entry's file, then one
\* modulepreload link per direct import.
C1_AssetMarkup ==
    (OnLoaded /\ result.op = "vite_asset"
        /\ result.path \in ManifestKeys(TheManifest))
    => LET entry == ManifestGet(TheManifest, result.path)
           css == ClosureCss(TheManifest, result.path)
           n == Len(css)
           k == Len(entry.imports)
           out == result.out
       IN  /\ result.status = "ok"
           /\ Len(out) = n + 1 + k
           /\ \A i \in 1..n :
                  out[i] = _generate_stylesheet_tag(
                               _generate_production_server_url(css[i]))
           /\ out[n + 1].name = "script"
           /\ out[n + 1].attrs[Len(out[n + 1].attrs)]
                  = <<"src", _generate_production_server_url(entry.file)>>
           /\ \A j \in 1..k :
                  IsModulePreloadOf(out[n + 1 + j],
                                    ManifestGet(TheManifest, entry.imports[j]).file)

\* A vite_asset call returned for an entry with imports, one of whose CSS
\* paths is reached by more than one import path.
C1_Witness ==
    /\ OnLoaded /\ result.op = "vite_asset" /\ result.status = "ok"
    /\ LET all == CssOfAll(TheManifest, WalkOrder(TheManifest, result.path))
       IN  /\ Len(FirstOccurrences(all)) < Len(all)
           /\ Len(FirstOccurrences(all)) > 1
    /\ ManifestGet(TheManifest, result.path).imports # <<>>

PathOps ==
    {"vite_asset", "vite_asset_url", "vite_preload_asset", "vite_legacy_asset"}

\* C2: in production with the manifest loaded, a path-taking tag given a path
\* that is no key of the manifest raises UnknownAsset and returns nothing.
C2_UnknownAsset ==
    (OnLoaded /\ result.op \in PathOps
        /\ result.path \notin ManifestKeys(TheManifest))
    => (result.status = "UnknownAsset" /\ result.out = <<>>)

\* vite_preload_asset ended for a path missing from a manifest that has keys.
C2_Witness ==
    /\ OnLoaded /\ result.op = "vite_preload_asset"
    /\ TheManifest # <<>>
    /\ result.path \notin ManifestKeys(TheManifest)
    /\ result.status = "UnknownAsset"

\* C3: in production the manifest file is read and parsed at most once,
\* however the threads' first calls of instance() interleave.
C3_LoadedOnce == Production => opened <= 1

\* C4: in production with a readable manifest, a tag asked for a path that
\* is a key of the manifest file never fails, however the threads' first
\* calls interleave.
C4_RaceSafe ==
    (Production /\ result.op \in PathOps
        /\ result.path \in ManifestKeys(TheManifest))
    => result.status = "ok"

\* C5: in development mode the manifest file is never opened and no tag
\* fails, whatever is at the manifest path.
C5_DevNeverReads ==
    DJANGO_VITE_DEV_MODE => (opened = 0 /\ result.status \in {"none", "ok"})

\* In development mode, with a manifest file that cannot be read, a tag that
\* reads the manifest in production has returned.
C5_Witness ==
    /\ DJANGO_VITE_DEV_MODE /\ ~manifest_file.readable
    /\ result.op = "vite_legacy_polyfills" /\ result.status = "ok"
    /\ first.op = "vite_asset" /\ first.path = K_missing

\* The last call that ended was a dependency walk over the loaded manifest.
WalkEnded ==
    /\ OnLoaded
    /\ result.op \in {"vite_asset", "vite_preload_asset"}
    /\ result.status = "ok"

IsCssTag(tag) ==
    /\ tag.name = "link"
    /\ Attr(tag, "rel") \in {<<"stylesheet">>, <<"preload">>}

\* The place of CSS path c among the CSS links of the markup, 0 if it has
\* none.
CssPlace(out, c) ==
    LET links == SelectSeq(out, IsCssTag)
        at == {i \in 1..Len(links) :
                  Attr(links[i], "href") = _generate_production_server_url(c)}
    IN  IF at = {} THEN 0 ELSE CHOOSE i \in at : \A j \in at : i <= j

\* The entries that N imports, directly or transitively.
TransitiveImports(m, N) == Range(WalkOrder(m, N)) \ {N}

CssOf(m, N) == Range(ManifestGet(m, N).css)

\* The CSS paths of N that no entry the walk finishes before N lists: the
\* ones that are emitted at N.
FirstEmittedAt(m, root, N) ==
    LET order == WalkOrder(m, root)
        n == CHOOSE i \in 1..Len(order) :
                 order[i] = N /\ \A j \in 1..(i - 1) : order[j] # N
    IN  {d \in CssOf(m, N) : \A j \in 1..(n - 1) : d \notin CssOf(m, order[j])}

\* C6, as stated: in the CSS links of one walk, every CSS path of an entry M
\* that N imports comes before every CSS path of N that is not one of M's,
\* also when that path of N was already emitted through another import path.
C6_DependencyFirst ==
    WalkEnded
    => \A N \in Range(WalkOrder(TheManifest, result.path)) :
           \A M \in TransitiveImports(TheManifest, N) :
               \A c \in CssOf(TheManifest, M) :
                   \A d \in CssOf(TheManifest, N) \ CssOf(TheManifest, M) :
                       /\ CssPlace(result.out, c) > 0
                       /\ CssPlace(result.out, c) < CssPlace(result.out, d)

\* C6, amended: every CSS path of an entry M that N imports comes before
\* every CSS path of N that had not been emitted when the walk reached N's
\* own css list.
C6_DependencyFirstWhenEmittedAtEntry ==
    WalkEnded
    => \A N \in Range(WalkOrder(TheManifest, result.path)) :
           \A M \in TransitiveImports(TheManifest, N) :
               \A c \in CssOf(TheManifest, M) :
                   \A d \in FirstEmittedAt(TheManifest, result.path, N) :
                       /\ CssPlace(result.out, c) > 0
                       /\ CssPlace(result.out, c) < CssPlace(result.out, d)

\* A walk that met an entry N with an import that has CSS, where one CSS
\* path of N is emitted at N and another was emitted before the walk
\* reached N.
C6_Witness ==
    /\ WalkEnded
    /\ \E N \in Range(WalkOrder(TheManifest, result.path)) :
           /\ \E M \in TransitiveImports(TheManifest, N) :
                  CssOf(TheManifest, M) # {}
           /\ FirstEmittedAt(TheManifest, result.path, N) # {}
           /\ CssOf(TheManifest, N)
                  \ FirstEmittedAt(TheManifest, result.path, N) # {}

\* C7: in production, the modulepreload link vite_asset emits for a direct
\* import points at the URL _generate_production_server_url gives for the
\* import's file, as the entry's own script tag does.
C7_PreloadResolved ==
    (OnLoaded /\ result.op = "vite_asset" /\ result.status = "ok")
    => LET entry == ManifestGet(TheManifest, result.path)
           n == Len(ClosureCss(TheManifest, result.path))
       IN  \A j \in 1..Len(entry.imports) :
               Attr(result.out[n + 1 + j], "href")
                   = _generate_production_server_url(
                         ManifestGet(TheManifest, entry.imports[j]).file)

\* The keys of the manifest that contain the polyfills motif.
PolyfillsKeys ==
    {key \in ManifestKeys(TheManifest) :
        Contains(DJANGO_VITE_LEGACY_POLYFILLS_MOTIF, key)}

\* C8: in production, vite_legacy_polyfills raises PolyfillsNotFound when no
\* key of the manifest contains the motif, and returns exactly one nomodule
\* script tag for the matching entry's file when exactly one key does.
C8_Polyfills ==
    (OnLoaded /\ result.op = "vite_legacy_polyfills")
    => /\ PolyfillsKeys = {}
          => (result.status = "PolyfillsNotFound" /\ result.out = <<>>)
       /\ Cardinality(PolyfillsKeys) = 1
          => /\ result.status = "ok"
             /\ Len(result.out) = 1
             /\ result.out[1].name = "script"
             /\ HasAttr(result.out[1], "nomodule")
             /\ Attr(result.out[1], "src")
                    = _generate_production_server_url(
                          ManifestGet(TheManifest,
                                      CHOOSE key \in PolyfillsKeys : TRUE).file)

\* The tag returned for a manifest where one key, not equal to the motif,
\* contains it.
C8_Witness ==
    /\ OnLoaded /\ result.op = "vite_legacy_polyfills"
    /\ Cardinality(PolyfillsKeys) = 1
    /\ DJANGO_VITE_LEGACY_POLYFILLS_MOTIF \notin PolyfillsKeys
    /\ result.status = "ok"

\* C9: a vite_asset call with the path (and keyword arguments) of an earlier
\* one, against the same loaded manifest, returns what the earlier one
\* returned, whatever calls ended in between: the list of emitted CSS paths
\* starts empty at every call.
C9_SameOutput ==
    (result.op = "vite_asset" /\ first.op = "vite_asset"
        /\ SameCall(result, first)
        /\ (DJANGO_VITE_DEV_MODE \/ OnLoaded))
    => (result.status = first.status /\ result.out = first.out)

\* The first vite_asset call, which emitted stylesheets, was repeated after
\* other calls, the last walk having left a list that is not empty.
C9_Witness ==
    /\ OnLoaded
    /\ result.op = "vite_asset" /\ SameCall(result, first) /\ between
    /\ \E i \in 1..Len(result.out) : IsCssTag(result.out[i])
    /\ already_processed # <<>>

\* C10: in production, vite_preload_asset of a path of the manifest returns
\* a modulepreload link for the entry, then one `rel=preload as=style` link
\* per unique CSS path of the closure, then one modulepreload link per
\* direct import in the order of `imports`; in development mode it returns
\* the empty string.
C10_PreloadMarkup ==
    /\ (DJANGO_VITE_DEV_MODE /\ result.op = "vite_preload_asset")
       => (result.status = "ok" /\ result.out = <<>>)
    /\ (OnLoaded /\ result.op = "vite_preload_asset"
           /\ result.path \in ManifestKeys(TheManifest))
       => LET entry == ManifestGet(TheManifest, result.path)
              css == ClosureCss(TheManifest, result.path)
              n == Len(css)
              k == Len(entry.imports)
              out == result.out
          IN  /\ result.status = "ok"
              /\ Len(out) = 1 + n + k
              /\ IsModulePreloadOf(out[1], entry.file)
              /\ \A i \in 1..n :
                     out[1 + i] = _generate_stylesheet_preload_tag(
                                      _generate_production_server_url(css[i]))
              /\ \A j \in 1..k :
                     IsModulePreloadOf(
                         out[1 + n + j],
                         ManifestGet(TheManifest, entry.imports[j]).file)

\* vite_preload_asset returned for an entry with CSS in its closure and a
\* direct import that has imports of its own.
C10_Witness ==
    /\ OnLoaded /\ result.op = "vite_preload_asset" /\ result.status = "ok"
    /\ ClosureCss(TheManifest, result.path) # <<>>
    /\ \E dep \in Range(ManifestGet(TheManifest, result.path).imports) :
           ManifestGet(TheManifest, dep).imports # <<>>

\* The tags whose script tag takes the caller's keyword arguments.
KwargsOps ==
    {"vite_asset", "vite_legacy_asset", "vite_legacy_polyfills",
     "vite_hmr_client"}

\* The attributes each of them gives its script tag by default.
DefaultAttrs(op) ==
    IF op \in {"vite_legacy_asset", "vite_legacy_polyfills"}
    THEN {"nomodule", "crossorigin"}
    ELSE IF op = "vite_asset" /\ ~DJANGO_VITE_DEV_MODE
    THEN {"type", "crossorigin"}
    ELSE {"type"}

\* The script tags of a markup.
ScriptTags(out) ==
    {i \in 1..Len(out) : out[i].name = "script"}

\* C11: a keyword argument whose key is a default attribute of the script
\* tag (type, crossorigin, nomodule) is in the rendered tag exactly once,
\* with the value the caller gave.
C11_CallerWins ==
    (result.op \in KwargsOps /\ result.status = "ok" /\ result.out # <<>>)
    => /\ Cardinality(ScriptTags(result.out)) = 1
       /\ \A i \in ScriptTags(result.out) :
              \A k \in DictKeys(result.kwargs) \cap DefaultAttrs(result.op) :
                  /\ Cardinality({j \in 1..Len(result.out[i].attrs) :
                                     result.out[i].attrs[j][1] = k}) = 1
                  /\ Attr(result.out[i], k) = DictGet(result.kwargs, k)

\* vite_legacy_polyfills returned a tag for a caller who gave both of its
\* default attributes, after vite_asset returned one for a caller who gave
\* `type`.
C11_Witness ==
    /\ OnLoaded /\ result.op = "vite_legacy_polyfills" /\ result.status = "ok"
    /\ DefaultAttrs(result.op) \subseteq DictKeys(result.kwargs)
    /\ first.op = "vite_asset" /\ "type" \in DictKeys(first.kwargs)

\* Production mode with a manifest file that cannot be opened or parsed.
Unreadable == ~DJANGO_VITE_DEV_MODE /\ ~manifest_file.readable

\* The tags that resolve through the manifest.
ManifestOps == PathOps \cup {"vite_legacy_polyfills"}

\* With an unreadable manifest file no call returns markup, a call of
\* instance() that ends the tag raises ManifestUnreadable, and a tag that got
\* past instance() got the loader stored before the load failed, whose
\* _manifest is None, and fails on it.
C12_NoMarkup ==
    Unreadable
    => /\ result.out = <<>>
       /\ result.op = "instance" => result.status = "ManifestUnreadable"
       /\ result.op \in ManifestOps
          => /\ result.status \notin {"ok", "none"}
             /\ result.on = "none"
             /\ _instance # 0
             /\ opened = 1

\* With an unreadable manifest file, the step that opens it ends the tag with
\* ManifestUnreadable, and leaves the loader stored.
C12_LoadFails(t) ==
    (Unreadable /\ pc[t] = "420" /\ pc'[t] # "420")
    => /\ pc'[t] = "idle"
       /\ result'.op = "instance"
       /\ result'.status = "ManifestUnreadable"
       /\ _instance' # 0
       /\ loaders'[_instance'].state = "none"

\* C12: in production with a manifest file that cannot be opened or parsed,
\* the first access fails with ManifestUnreadable, and every later resolution
\* fails too and returns no markup, although the loader was stored before the
\* load failed.
C12_StaysFatal ==
    /\ []C12_NoMarkup
    /\ [][\A t \in Threads : C12_LoadFails(t)]_vars

\* After the failed load, vite_legacy_polyfills ran on the stored loader and
\* failed.
C12_Witness ==
    /\ Unreadable /\ opened = 1 /\ _instance # 0
    /\ loaders[_instance].state = "none"
    /\ result.op = "vite_legacy_polyfills" /\ result.status = "AttributeError"

============================================================================
